---- MODULE Spec2Model ----
(***************************************************************************)
(* A model of app/main.py of directus-translator:                          *)
(*   translate_text_with_prompt  one call of the chat-completion service   *)
(*   recursive_translate         the walk over a JSON value                *)
(*   translate_endpoint          the POST /translate handler               *)
(* recursive_translate is modelled as an explicit stack machine (one frame *)
(* per active dict/list invocation); the service is the environment, which *)
(* answers every call with any of the outcomes in ServiceOutcomes.         *)
(***************************************************************************)
EXTENDS Integers, Sequences, FiniteSets, TLC

VARIABLES
    data,        \* the argument of recursive_translate (never written)
    pc,          \* "start" | "walk" | "calling" | "returned" | "raised"
    stack,       \* the active dict/list invocations, outermost first
    result,      \* the value the outermost invocation returned
    error,       \* the exception that left the outermost invocation
    calls,       \* every translate_text_with_prompt call, in issue order, with
                 \* what the service did and what the call returned or raised
    body,        \* the request body of POST /translate
    hpc,         \* handler position: "off" | "fields" | "faqs" | "call" | "done"
    fieldIdx,    \* index into fields_to_translate
    faqIdx,      \* index into body['faqs']
    faqFieldIdx, \* index into ['title', 'answer']
    translations,\* the dict `translations` under construction
    curFaq,      \* the dict `translated_faq` under construction
    faqsOut,     \* the list `translated_faqs` under construction
    failed,      \* the entries whose Translator call raised
    response     \* what the handler returned

vars == <<data, pc, stack, result, error, calls, body, hpc, fieldIdx,
          faqIdx, faqFieldIdx, translations, curFaq, faqsOut, failed, response>>

walkVars == <<data, pc, stack, result, error, calls>>
handlerVars == <<body, hpc, fieldIdx, faqIdx, faqFieldIdx, translations,
                 curFaq, faqsOut, failed, response>>

-----------------------------------------------------------------------------
(* Bounds of the model.                                                    *)

\* the largest input tree of recursive_translate, in nodes
MaxNodes == 4
\* the most keys a request body of POST /translate carries
MaxBodyKeys == 2

-----------------------------------------------------------------------------
(* JSON values as Python holds them after json.loads: dict (insertion      *)
(* ordered, unique keys), list, str, and every other scalar.  One record   *)
(* shape for all four so that any two values can be compared.              *)

Obj(ks, vs) == [t |-> "obj", s |-> "", keys |-> ks, vals |-> vs]
Arr(vs) == [t |-> "arr", s |-> "", keys |-> <<>>, vals |-> vs]
Str(x) == [t |-> "str", s |-> x, keys |-> <<>>, vals |-> <<>>]
Other(x) == [t |-> "other", s |-> x, keys |-> <<>>, vals |-> <<>>]
NoValue == [t |-> "none", s |-> "", keys |-> <<>>, vals |-> <<>>]

\* isinstance(value, (dict, list))
IsContainer(v) == v.t \in {"obj", "arr"}
\* isinstance(value, dict)
IsDict(v) == v.t = "obj"
\* isinstance(value, list)
IsList(v) == v.t = "arr"
\* the test of line 126 as it would be if it took every scalar for text
IsScalar(v) == v.t \in {"str", "other"}
\* isinstance(value, str)
IsStr(v) == v.t = "str"

-----------------------------------------------------------------------------
(* Texts are strings.  The service's replies are drawn from a finite set   *)
(* of texts; str.strip and json.loads are given on that set.               *)

\* what a well-behaved service would answer for the text x
Tr(x) == CASE x = "Hi" -> "HELLO"
           [] x = "a" -> "A"
           [] x = "b" -> "B"
           [] OTHER -> "X"

\* the reply the system prompt asks for: both fields of the schema
SchemaReply(x) ==
    "{\"arabic_translation\": \"" \o Tr(x) \o "\", \"translation_notes\": \"n\"}"
\* the same translation without the optional notes
SchemaReplyNoNotes(x) == "{\"arabic_translation\": \"" \o Tr(x) \o "\"}"
\* a JSON object under another key than the one line 132 reads
OtherKeyReply(x) ==
    "{\"ar_translation\": \"" \o Tr(x) \o "\", \"translation_notes\": \"n\"}"
\* free text, no JSON
PlainReply == "bonjour"
\* free text with white space around it
PaddedReply == " bonjour\n"
\* valid JSON that is no object
NumberReply == "42"
\* the expected key with a value that is no string
NonStringReply == "{\"arabic_translation\": 5}"

Texts == {"Hi", "a", "b", "3", ""}

\* the texts json.loads accepts, each with the value it yields
JsonTexts ==
    UNION {{ <<SchemaReply(x),
               Obj(<<"arabic_translation", "translation_notes">>, <<Str(Tr(x)), Str("n")>>)>>,
             <<SchemaReplyNoNotes(x), Obj(<<"arabic_translation">>, <<Str(Tr(x))>>)>>,
             <<OtherKeyReply(x),
               Obj(<<"ar_translation", "translation_notes">>, <<Str(Tr(x)), Str("n")>>)>> }
           : x \in Texts}
    \cup { <<NumberReply, Other("42")>>,
           <<NonStringReply, Obj(<<"arabic_translation">>, <<Other("5")>>)>> }

\* str.strip(): leading and trailing white space removed
Strip(t) == IF t = PaddedReply THEN PlainReply ELSE t

\* json.loads(t): the parsed value, or JSONDecodeError
Loads(t) ==
    IF \E p \in JsonTexts : p[1] = t
    THEN [ok |-> TRUE, val |-> (CHOOSE p \in JsonTexts : p[1] = t)[2]]
    ELSE [ok |-> FALSE, val |-> NoValue]

\* dict.get(k, d)
Get(obj, k, d) ==
    IF \E i \in 1..Len(obj.keys) : obj.keys[i] = k
    THEN obj.vals[CHOOSE i \in 1..Len(obj.keys) : obj.keys[i] = k]
    ELSE d

\* the status codes of the two HTTPExceptions of translate_text_with_prompt
ApiErrorStatus == 502
UnexpectedErrorStatus == 500

\* what client.chat.completions.create(...) and the reading of
\* response.choices[0].message.content can do for the text x:
\*   "content"   a completion whose content is a string
\*   "none"      a completion whose content is None (.strip() raises AttributeError)
\*   "api_error" openai.APIError
\*   "exception" any other exception
ServiceOutcomes(x) ==
    { [kind |-> "content", content |-> c] :
        c \in {SchemaReply(x), SchemaReplyNoNotes(x), OtherKeyReply(x), PlainReply,
               PaddedReply, NumberReply, NonStringReply} }
    \cup { [kind |-> k, content |-> ""] : k \in {"none", "api_error", "exception"} }

Return(t) == [kind |-> "return", text |-> t, status |-> 0]
Raise(code) == [kind |-> "raise", text |-> "", status |-> code]

\* translate_text_with_prompt as it would be if it fell back to its input
TranslateTextOrInput(text, svc) ==
    IF svc.kind = "content" THEN Return(Strip(svc.content)) ELSE Return(text)

\* translate_text_with_prompt(text, target_language) when the service does svc.
\* target_language only enters the system prompt; the key the callers read
\* does not depend on it.
TranslateTextWithPrompt(text, svc) ==
    CASE svc.kind = "content" -> Return(Strip(svc.content))
      [] svc.kind = "api_error" -> Raise(ApiErrorStatus)
      [] OTHER -> Raise(UnexpectedErrorStatus)

\* Lines 128-135: the value stored for the string `value` of a dict, given
\* what translate_text_with_prompt did.  An HTTPException is not caught and
\* neither is the AttributeError of .get on a parsed value that is no dict.
Leaf(v) == [kind |-> "value", val |-> v, err |-> ""]
LeafRaise(e) == [kind |-> "raise", val |-> NoValue, err |-> e]

\* lines 128-135 as they would be if line 132 read another key
TranslateLeafOtherKey(value, ret) ==
    IF ret.kind = "raise"
    THEN LeafRaise(IF ret.status = ApiErrorStatus THEN "HTTPException502"
                   ELSE "HTTPException500")
    ELSE LET parsed == Loads(ret.text) IN
         IF ~parsed.ok THEN Leaf(Str(ret.text))
         ELSE IF IsDict(parsed.val)
              THEN Leaf(Get(parsed.val, "ar_translation", value))
              ELSE LeafRaise("AttributeError")

TranslateLeaf(value, ret) ==
    IF ret.kind = "raise"
    THEN LeafRaise(IF ret.status = ApiErrorStatus THEN "HTTPException502"
                   ELSE "HTTPException500")
    ELSE LET parsed == Loads(ret.text) IN
         IF ~parsed.ok THEN Leaf(Str(ret.text))
         ELSE IF IsDict(parsed.val)
              THEN Leaf(Get(parsed.val, "arabic_translation", value))
              ELSE LeafRaise("AttributeError")

-----------------------------------------------------------------------------
(* The inputs: every JSON tree of at most MaxNodes nodes over these keys   *)
(* and leaves.                                                             *)

KeyNames == {"title", "items"}
LeafValues == {Str("Hi"), Str("a"), Other("3")}

\* the sequences of k distinct keys
KeySeqs(k) ==
    {ks \in [1..k -> KeyNames] : \A i, j \in 1..k : ks[i] = ks[j] => i = j}

RECURSIVE TreesOfSize(_), Forests(_, _)
\* the sequences of k trees with n nodes in all
Forests(k, n) ==
    IF k = 0 THEN (IF n = 0 THEN {<<>>} ELSE {})
    ELSE UNION {{<<t>> \o f : t \in TreesOfSize(m), f \in Forests(k - 1, n - m)}
                : m \in 1..(n - (k - 1))}
TreesOfSize(n) ==
    IF n = 1 THEN LeafValues \cup {Arr(<<>>), Obj(<<>>, <<>>)}
    ELSE UNION {{Arr(f) : f \in Forests(k, n - 1)}
                \cup {Obj(ks, f) : ks \in KeySeqs(k), f \in Forests(k, n - 1)}
                : k \in 1..(n - 1)}

\* the nested document of the specification's section 8
NestedExample ==
    Obj(<<"title", "items", "count">>,
        <<Str("Hi"), Arr(<<Str("a"), Obj(<<"label">>, <<Str("b")>>)>>), Other("3")>>)

Docs == UNION {TreesOfSize(n) : n \in 1..MaxNodes} \cup {NestedExample}

-----------------------------------------------------------------------------
(* recursive_translate.  A frame is one active invocation on a dict or a   *)
(* list: the container, the index of the entry the loop is at, and the     *)
(* output built so far (translated_data, or the list of the comprehension).*)

Frame(node) == [node |-> node, idx |-> 1, keys |-> <<>>, vals |-> <<>>]
Top == stack[Len(stack)]
\* the position the innermost loop is at: one index per active invocation
CurPath == [i \in 1..Len(stack) |-> stack[i].idx]
\* the record of a call the service has not answered yet
Pending(path, text) ==
    [path |-> path, text |-> text, svc |-> [kind |-> "pending", content |-> ""],
     ret |-> [kind |-> "pending", text |-> "", status |-> 0]]

\* the frame after its loop stored v for the current entry
Stored(f, v) ==
    [f EXCEPT !.idx = @ + 1,
              !.keys = IF IsDict(f.node) THEN Append(@, f.node.keys[f.idx]) ELSE @,
              !.vals = Append(@, v)]
\* the stack after the innermost loop stored v for the current entry
Store(v) == [stack EXCEPT ![Len(stack)] = Stored(@, v)]
\* what an invocation whose loop has ended returns (lines 139 and 142)
Built(f) == IF IsDict(f.node) THEN Obj(f.keys, f.vals) ELSE Arr(f.vals)

\* Lines 120, 140, 143-145: the outermost invocation is entered.
Enter ==
    /\ pc = "start"
    /\ IF IsContainer(data)
       THEN /\ stack' = <<Frame(data)>>
            /\ pc' = "walk"
            /\ UNCHANGED result
       ELSE /\ result' = data
            /\ pc' = "returned"
            /\ UNCHANGED stack
    /\ UNCHANGED <<data, error, calls>>

\* Lines 123-125: a dict entry that is a dict or a list is recursed into.
DictRecurse ==
    /\ pc = "walk" /\ IsDict(Top.node) /\ Top.idx <= Len(Top.node.vals)
    /\ IsContainer(Top.node.vals[Top.idx])
    /\ stack' = Append(stack, Frame(Top.node.vals[Top.idx]))
    /\ UNCHANGED <<data, pc, result, error, calls>>

\* DictCall as it would be if the call were started and not awaited
DictCallNoWait ==
    /\ pc = "walk" /\ IsDict(Top.node) /\ Top.idx <= Len(Top.node.vals)
    /\ IsStr(Top.node.vals[Top.idx])
    /\ calls' = Append(calls, Pending(CurPath, Top.node.vals[Top.idx].s))
    /\ stack' = Store(Top.node.vals[Top.idx])
    /\ UNCHANGED <<data, pc, result, error>>

\* Lines 126-128: a dict entry that is a str is sent to the Translator.
DictCall ==
    /\ pc = "walk" /\ IsDict(Top.node) /\ Top.idx <= Len(Top.node.vals)
    /\ IsStr(Top.node.vals[Top.idx])
    /\ calls' = Append(calls, Pending(CurPath, Top.node.vals[Top.idx].s))
    /\ pc' = "calling"
    /\ UNCHANGED <<data, stack, result, error>>

\* Lines 87-106 and 129-135: the service answers, translate_text_with_prompt
\* returns or raises, and the entry is stored or the exception leaves
\* every active invocation.
DictReply ==
    /\ pc = "calling"
    /\ \E svc \in ServiceOutcomes(Top.node.vals[Top.idx].s) :
         LET value == Top.node.vals[Top.idx]
             ret == TranslateTextWithPrompt(value.s, svc)
             leaf == TranslateLeaf(value, ret)
         IN /\ calls' = [calls EXCEPT ![Len(calls)].svc = svc, ![Len(calls)].ret = ret]
            /\ IF leaf.kind = "value"
               THEN /\ stack' = Store(leaf.val)
                    /\ pc' = "walk"
                    /\ UNCHANGED error
               ELSE /\ error' = leaf.err
                    /\ pc' = "raised"
                    /\ UNCHANGED stack
    /\ UNCHANGED <<data, result>>

\* Lines 136-138: any other dict entry is kept as it is.
DictKeep ==
    /\ pc = "walk" /\ IsDict(Top.node) /\ Top.idx <= Len(Top.node.vals)
    /\ ~IsContainer(Top.node.vals[Top.idx]) /\ ~IsStr(Top.node.vals[Top.idx])
    /\ stack' = Store(Top.node.vals[Top.idx])
    /\ UNCHANGED <<data, pc, result, error, calls>>

\* Line 142 with 120/140: a list item that is a dict or a list is recursed into.
ListRecurse ==
    /\ pc = "walk" /\ IsList(Top.node) /\ Top.idx <= Len(Top.node.vals)
    /\ IsContainer(Top.node.vals[Top.idx])
    /\ stack' = Append(stack, Frame(Top.node.vals[Top.idx]))
    /\ UNCHANGED <<data, pc, result, error, calls>>

\* Line 142 with 143-145: for any other list item, a str included, the
\* invocation on it returns the item itself.
ListKeep ==
    /\ pc = "walk" /\ IsList(Top.node) /\ Top.idx <= Len(Top.node.vals)
    /\ ~IsContainer(Top.node.vals[Top.idx])
    /\ stack' = Store(Top.node.vals[Top.idx])
    /\ UNCHANGED <<data, pc, result, error, calls>>

\* Lines 139 and 142: a loop has ended; the invocation returns what it built
\* to the loop that called it, or to the caller of recursive_translate.
ReturnUp ==
    /\ pc = "walk" /\ Top.idx > Len(Top.node.vals)
    /\ IF Len(stack) = 1
       THEN /\ result' = Built(Top)
            /\ pc' = "returned"
            /\ stack' = <<>>
       ELSE /\ stack' = [SubSeq(stack, 1, Len(stack) - 1)
                           EXCEPT ![Len(stack) - 1] = Stored(@, Built(Top))]
            /\ UNCHANGED <<result, pc>>
    /\ UNCHANGED <<data, error, calls>>

-----------------------------------------------------------------------------
(* translate_endpoint, the handler of POST /translate.                     *)

fields_to_translate == <<"title", "headline", "content", "label", "subtitle", "company">>
faq_fields == <<"title", "answer">>

\* str.lower() on the keys of the model
Lower(k) == IF k = "Title" THEN "title" ELSE k

\* the truth value Python gives a JSON value (line 174)
Truthy(v) ==
    CASE v.t = "str" -> v.s # ""
      [] v.t = "other" -> v.s \notin {"0", "false", "null"}
      [] OTHER -> Len(v.vals) > 0

\* k in d
HasKey(d, k) == \E i \in 1..Len(d.keys) : d.keys[i] = k

\* d[k] = v, and {**d, k: v}: an existing key keeps its place
Put(d, k, v) ==
    IF HasKey(d, k)
    THEN [d EXCEPT !.vals[CHOOSE i \in 1..Len(d.keys) : d.keys[i] = k] = v]
    ELSE [d EXCEPT !.keys = Append(@, k), !.vals = Append(@, v)]

\* Lines 168-172: the index of the first key of the body that equals the
\* field when both are lowered, 0 when there is none
FirstMatch(b, field) ==
    IF \E i \in 1..Len(b.keys) : Lower(b.keys[i]) = Lower(field)
    THEN CHOOSE i \in 1..Len(b.keys) :
            /\ Lower(b.keys[i]) = Lower(field)
            /\ \A j \in 1..(i - 1) : Lower(b.keys[j]) # Lower(field)
    ELSE 0

\* the entries of body['faqs'] and the values of that key
FaqFull == Obj(<<"title", "answer">>, <<Str("Hi"), Str("a")>>)
FaqAnswerOnly == Obj(<<"answer">>, <<Str("b")>>)
FaqsValues ==
    {Arr(<<>>), Arr(<<FaqFull>>), Arr(<<FaqAnswerOnly, FaqFull>>), Arr(<<Other("3")>>),
     Other("3")}

BodyKeyNames == {"title", "Title", "label", "count", "faqs", "translations"}
BodyValues(k) ==
    CASE k = "faqs" -> FaqsValues
      [] k = "count" -> {Other("3")}
      [] k = "translations" -> {Str("old")}
      [] OTHER -> {Str("Hi"), Str("")}

\* the request bodies: JSON objects of at most MaxBodyKeys keys, a body that
\* is JSON but no object, and a body request.json() cannot parse (NoValue)
BodyKeySeqs ==
    UNION {{q \in [1..n -> BodyKeyNames] : \A i, j \in 1..n : q[i] = q[j] => i = j}
           : n \in 0..MaxBodyKeys}
BodiesWithKeys(ks) ==
    {Obj(ks, vs) : vs \in {w \in [1..Len(ks) -> UNION {BodyValues(k) : k \in BodyKeyNames}] :
                              \A i \in 1..Len(ks) : w[i] \in BodyValues(ks[i])}}
Bodies ==
    UNION {BodiesWithKeys(ks) : ks \in BodyKeySeqs} \cup {Arr(<<>>), Other("3"), NoValue}

NoResponse == [status |-> "", payload |-> NoValue, received |-> NoValue]
\* Lines 216-224
Success(b, tr) ==
    [status |-> "success",
     payload |-> Put(b, "translations", Obj(<<"ar">>, <<tr>>)),
     received |-> NoValue]
\* Lines 226-231; without a body `received` is {"error": "No body available"}
Failure(b) ==
    [status |-> "error", payload |-> NoValue,
     received |-> IF b = NoValue THEN Obj(<<"error">>, <<Str("No body available")>>) ELSE b]

\* the entry of `failed` for a field of the body, and for a field of a FAQ
FieldEntry(k) == [key |-> k, idx |-> 0, field |-> ""]
FaqEntry(i, f) == [key |-> "faqs", idx |-> i, field |-> f]

\* lines 175-188 and 199-209 as they would be if a failed call left an empty entry
HandlerLeafBlank(value, ret) ==
    IF ret.kind = "raise" THEN Str("")
    ELSE LET parsed == Loads(ret.text) IN
         IF ~parsed.ok THEN Str(ret.text)
         ELSE IF IsDict(parsed.val) THEN Get(parsed.val, "arabic_translation", value)
              ELSE value

\* Lines 175-188 and 199-209: the entry stored for `value`, given what
\* translate_text_with_prompt did.  `except Exception` catches the
\* HTTPException and the AttributeError of .get on a value that is no dict.
HandlerLeaf(value, ret) ==
    IF ret.kind = "raise" THEN value
    ELSE LET parsed == Loads(ret.text) IN
         IF ~parsed.ok THEN Str(ret.text)
         ELSE IF IsDict(parsed.val) THEN Get(parsed.val, "arabic_translation", value)
              ELSE value

CurField == fields_to_translate[fieldIdx]
CurMatch == FirstMatch(body, CurField)
\* Line 174: `if field_value:` (None when no key matched)
CurFieldTruthy == IF CurMatch = 0 THEN FALSE ELSE Truthy(body.vals[CurMatch])
BodyFaqs == Get(body, "faqs", NoValue)
CurFaqIn == BodyFaqs.vals[faqIdx]
CurFaqField == faq_fields[faqFieldIdx]

\* Lines 155-159: the body is read.  Without a body request.json() raises;
\* a body that is no dict raises in the loops or at line 219 (`**body`).
\* Either way line 226 catches it.
ReadBody ==
    /\ hpc = "begin"
    /\ IF IsDict(body)
       THEN /\ translations' = Obj(<<>>, <<>>)
            /\ fieldIdx' = 1
            /\ hpc' = "fields"
            /\ UNCHANGED response
       ELSE /\ response' = Failure(body)
            /\ hpc' = "done"
            /\ UNCHANGED <<translations, fieldIdx>>
    /\ UNCHANGED <<body, faqIdx, faqFieldIdx, curFaq, faqsOut, failed>>

\* Lines 162-174: the field is absent from the body, or its value is falsy.
FieldSkip ==
    /\ hpc = "fields" /\ fieldIdx <= Len(fields_to_translate)
    /\ ~CurFieldTruthy
    /\ fieldIdx' = fieldIdx + 1
    /\ UNCHANGED <<body, hpc, faqIdx, faqFieldIdx, translations, curFaq, faqsOut,
                   failed, response>>

\* Lines 174-177: the value of the field is sent to the Translator.
FieldCall ==
    /\ hpc = "fields" /\ fieldIdx <= Len(fields_to_translate)
    /\ CurFieldTruthy
    /\ hpc' = "fieldcall"
    /\ UNCHANGED <<body, fieldIdx, faqIdx, faqFieldIdx, translations, curFaq, faqsOut,
                   failed, response>>

\* Lines 177-188: the call returns or raises and translations[field_key] is set.
FieldReply ==
    /\ hpc = "fieldcall"
    /\ \E svc \in ServiceOutcomes(body.vals[CurMatch].s) :
         LET value == body.vals[CurMatch]
             ret == TranslateTextWithPrompt(value.s, svc)
         IN /\ translations' = Put(translations, body.keys[CurMatch], HandlerLeaf(value, ret))
            /\ failed' = IF ret.kind = "raise"
                         THEN failed \cup {FieldEntry(body.keys[CurMatch])}
                         ELSE failed
    /\ fieldIdx' = fieldIdx + 1
    /\ hpc' = "fields"
    /\ UNCHANGED <<body, faqIdx, faqFieldIdx, curFaq, faqsOut, response>>

\* Lines 191-193: the body has 'faqs' and its value is a list.
FaqsEnter ==
    /\ hpc = "fields" /\ fieldIdx > Len(fields_to_translate)
    /\ HasKey(body, "faqs") /\ IsList(BodyFaqs)
    /\ faqsOut' = <<>>
    /\ faqIdx' = 1
    /\ hpc' = "faqs"
    /\ UNCHANGED <<body, fieldIdx, faqFieldIdx, translations, curFaq, failed, response>>

\* Line 193: body['faqs'] is a number: the for statement raises TypeError.
FaqsNotIterable ==
    /\ hpc = "fields" /\ fieldIdx > Len(fields_to_translate)
    /\ HasKey(body, "faqs") /\ ~IsContainer(BodyFaqs) /\ ~IsStr(BodyFaqs)
    /\ response' = Failure(body)
    /\ hpc' = "done"
    /\ UNCHANGED <<body, fieldIdx, faqIdx, faqFieldIdx, translations, curFaq, faqsOut, failed>>

\* Lines 191, 216-224: no 'faqs' in the body; the handler answers.
RespondNoFaqs ==
    /\ hpc = "fields" /\ fieldIdx > Len(fields_to_translate)
    /\ ~HasKey(body, "faqs")
    /\ response' = Success(body, translations)
    /\ hpc' = "done"
    /\ UNCHANGED <<body, fieldIdx, faqIdx, faqFieldIdx, translations, curFaq, faqsOut, failed>>

\* Lines 193-194: the next FAQ is a dict.
FaqEnter ==
    /\ hpc = "faqs" /\ faqIdx <= Len(BodyFaqs.vals)
    /\ IsDict(CurFaqIn)
    /\ curFaq' = Obj(<<>>, <<>>)
    /\ faqFieldIdx' = 1
    /\ hpc' = "faq"
    /\ UNCHANGED <<body, fieldIdx, faqIdx, translations, faqsOut, failed, response>>

\* Line 198: the next FAQ is a number: `faq_field in faq` raises TypeError.
FaqNotDict ==
    /\ hpc = "faqs" /\ faqIdx <= Len(BodyFaqs.vals)
    /\ ~IsContainer(CurFaqIn) /\ ~IsStr(CurFaqIn)
    /\ response' = Failure(body)
    /\ hpc' = "done"
    /\ UNCHANGED <<body, fieldIdx, faqIdx, faqFieldIdx, translations, curFaq, faqsOut, failed>>

\* Line 198: the FAQ lacks the field.
FaqFieldSkip ==
    /\ hpc = "faq" /\ faqFieldIdx <= Len(faq_fields)
    /\ ~HasKey(CurFaqIn, CurFaqField)
    /\ faqFieldIdx' = faqFieldIdx + 1
    /\ UNCHANGED <<body, hpc, fieldIdx, faqIdx, translations, curFaq, faqsOut, failed,
                   response>>

\* Lines 198-200: the field of the FAQ is sent to the Translator.
FaqCall ==
    /\ hpc = "faq" /\ faqFieldIdx <= Len(faq_fields)
    /\ HasKey(CurFaqIn, CurFaqField)
    /\ hpc' = "faqcall"
    /\ UNCHANGED <<body, fieldIdx, faqIdx, faqFieldIdx, translations, curFaq, faqsOut,
                   failed, response>>

\* Lines 200-209: the call returns or raises and translated_faq[faq_field] is set.
FaqReply ==
    /\ hpc = "faqcall"
    /\ \E svc \in ServiceOutcomes(Get(CurFaqIn, CurFaqField, NoValue).s) :
         LET value == Get(CurFaqIn, CurFaqField, NoValue)
             ret == TranslateTextWithPrompt(value.s, svc)
         IN /\ curFaq' = Put(curFaq, CurFaqField, HandlerLeaf(value, ret))
            /\ failed' = IF ret.kind = "raise"
                         THEN failed \cup {FaqEntry(faqIdx, CurFaqField)}
                         ELSE failed
    /\ faqFieldIdx' = faqFieldIdx + 1
    /\ hpc' = "faq"
    /\ UNCHANGED <<body, fieldIdx, faqIdx, translations, faqsOut, response>>

\* Line 211: the translated FAQ is appended.
FaqAppend ==
    /\ hpc = "faq" /\ faqFieldIdx > Len(faq_fields)
    /\ faqsOut' = Append(faqsOut, curFaq)
    /\ faqIdx' = faqIdx + 1
    /\ hpc' = "faqs"
    /\ UNCHANGED <<body, fieldIdx, faqFieldIdx, translations, curFaq, failed, response>>

\* Lines 213-224: translations['faqs'] is set and the handler answers.
RespondWithFaqs ==
    /\ hpc = "faqs" /\ faqIdx > Len(BodyFaqs.vals)
    /\ translations' = Put(translations, "faqs", Arr(faqsOut))
    /\ response' = Success(body, translations')
    /\ hpc' = "done"
    /\ UNCHANGED <<body, fieldIdx, faqIdx, faqFieldIdx, curFaq, faqsOut, failed>>

HandlerOff ==
    /\ body = NoValue /\ hpc = "off" /\ fieldIdx = 0 /\ faqIdx = 0 /\ faqFieldIdx = 0
    /\ translations = NoValue /\ curFaq = NoValue /\ faqsOut = <<>>
    /\ failed = {} /\ response = NoResponse

Init ==
    /\ data \in Docs
    /\ pc = "start"
    /\ stack = <<>>
    /\ result = NoValue
    /\ error = ""
    /\ calls = <<>>
    /\ HandlerOff

Next ==
    \/ (Enter /\ UNCHANGED handlerVars)
    \/ (DictRecurse /\ UNCHANGED handlerVars)
    \/ (DictCall /\ UNCHANGED handlerVars)
    \/ (DictReply /\ UNCHANGED handlerVars)
    \/ (DictKeep /\ UNCHANGED handlerVars)
    \/ (ListRecurse /\ UNCHANGED handlerVars)
    \/ (ListKeep /\ UNCHANGED handlerVars)
    \/ (ReturnUp /\ UNCHANGED handlerVars)

Spec == Init /\ [][Next]_vars

WalkOff ==
    /\ data = NoValue /\ pc = "off" /\ stack = <<>> /\ result = NoValue
    /\ error = "" /\ calls = <<>>

InitEndpoint ==
    /\ body \in Bodies
    /\ hpc = "begin"
    /\ fieldIdx = 0 /\ faqIdx = 0 /\ faqFieldIdx = 0
    /\ translations = NoValue /\ curFaq = NoValue /\ faqsOut = <<>>
    /\ failed = {}
    /\ response = NoResponse
    /\ WalkOff

NextEndpoint ==
    \/ (ReadBody /\ UNCHANGED walkVars)
    \/ (FieldSkip /\ UNCHANGED walkVars)
    \/ (FieldCall /\ UNCHANGED walkVars)
    \/ (FieldReply /\ UNCHANGED walkVars)
    \/ (FaqsEnter /\ UNCHANGED walkVars)
    \/ (FaqsNotIterable /\ UNCHANGED walkVars)
    \/ (RespondNoFaqs /\ UNCHANGED walkVars)
    \/ (FaqEnter /\ UNCHANGED walkVars)
    \/ (FaqNotDict /\ UNCHANGED walkVars)
    \/ (FaqFieldSkip /\ UNCHANGED walkVars)
    \/ (FaqCall /\ UNCHANGED walkVars)
    \/ (FaqReply /\ UNCHANGED walkVars)
    \/ (FaqAppend /\ UNCHANGED walkVars)
    \/ (RespondWithFaqs /\ UNCHANGED walkVars)

SpecEndpoint == InitEndpoint /\ [][NextEndpoint]_vars

-----------------------------------------------------------------------------
(* Vocabulary of the properties of recursive_translate.  A position is the *)
(* sequence of entry indices leading from the root to a node.              *)

RECURSIVE Paths(_), ValueAt(_, _), SameShape(_, _), Translated(_), StringLeafCount(_)

Paths(v) ==
    {<<>>} \cup UNION {{<<i>> \o q : q \in Paths(v.vals[i])} : i \in 1..Len(v.vals)}

ValueAt(v, q) == IF q = <<>> THEN v ELSE ValueAt(v.vals[q[1]], Tail(q))

\* same variant everywhere, same keys in the same order, same lengths
SameShape(a, b) ==
    /\ a.t = b.t
    /\ a.keys = b.keys
    /\ Len(a.vals) = Len(b.vals)
    /\ \A i \in 1..Len(a.vals) : SameShape(a.vals[i], b.vals[i])

\* the tree with every String leaf replaced by its translation
Translated(v) ==
    IF IsStr(v) THEN Str(Tr(v.s))
    ELSE [v EXCEPT !.vals = [i \in 1..Len(v.vals) |-> Translated(v.vals[i])]]

StringLeafCount(v) ==
    IF IsStr(v) THEN 1
    ELSE Cardinality({q \in Paths(v) : IsStr(ValueAt(v, q))})

\* q comes before r in depth-first document order
PathBefore(q, r) ==
    \E k \in 1..Len(q) :
        /\ k <= Len(r)
        /\ \A j \in 1..(k - 1) : q[j] = r[j]
        /\ q[k] < r[k]

Resolved(c) == c.svc.kind # "pending"
CallFailed(c) == c.svc.kind \in {"none", "api_error", "exception"}
Finished == pc \in {"returned", "raised"}

-----------------------------------------------------------------------------
(* The claims about recursive_translate and translate_text_with_prompt.    *)

\* C1 (as claimed): whenever recursive_translate returns, the result has the
\* shape of the input: same variant at every position, same keys in the same
\* order, same lengths; only the values of String leaves differ.
C1_ShapePreserved == pc = "returned" => SameShape(data, result)

\* C2 (as claimed): a Translator call that fails is never fatal: the walk does
\* not end in an exception because of it, and when every call fails the tree
\* returned equals the input.
C2_LeafFailureNotFatal ==
    /\ \A i \in 1..Len(calls) : CallFailed(calls[i]) => pc # "raised"
    /\ (Finished /\ \A i \in 1..Len(calls) : CallFailed(calls[i]))
          => (pc = "returned" /\ result = data)

\* C3 (as claimed, with the reply of the specification's example): a reply
\* {"ar_translation": X, "translation_notes": n} makes the output leaf X.
C3_ExtractsArTranslation ==
    pc = "returned" =>
        \A i \in 1..Len(calls) :
            (calls[i].svc.kind = "content"
             /\ calls[i].svc.content = OtherKeyReply(calls[i].text))
                => ValueAt(result, calls[i].path) = Str(Tr(calls[i].text))

\* C3 (amended): a reply that is a JSON object with the key
\* "arabic_translation" makes the output leaf the value under that key,
\* whether or not the reply carries translation_notes.
C3_ExtractsArabicTranslation ==
    pc = "returned" =>
        \A i \in 1..Len(calls) :
            /\ (calls[i].svc.kind = "content"
                /\ calls[i].svc.content
                     \in {SchemaReply(calls[i].text), SchemaReplyNoNotes(calls[i].text)})
                   => ValueAt(result, calls[i].path) = Str(Tr(calls[i].text))
            /\ (calls[i].svc.kind = "content" /\ calls[i].svc.content = NonStringReply)
                   => ValueAt(result, calls[i].path) = Other("5")

C3_Witness ==
    /\ pc = "returned"
    /\ \E i \in 1..Len(calls) :
         /\ calls[i].text = "Hi"
         /\ calls[i].svc.content = SchemaReply("Hi")
         /\ ValueAt(result, calls[i].path) = Str("HELLO")
    /\ \E i \in 1..Len(calls) : calls[i].svc.content = SchemaReplyNoNotes(calls[i].text)

\* C4 (as claimed): when the call succeeds and the reply is not in the schema
\* (no JSON, or JSON without the translation key), no error is raised and the
\* output leaf is the reply text as translate_text_with_prompt returned it.
C4_FallbackToRaw ==
    \A i \in 1..Len(calls) :
        (calls[i].svc.kind = "content"
         /\ calls[i].svc.content
              \in {PlainReply, PaddedReply, NumberReply, OtherKeyReply(calls[i].text)})
            => /\ i = Len(calls) => pc # "raised"
               /\ pc = "returned" => ValueAt(result, calls[i].path) = Str(calls[i].ret.text)

\* C5 (as claimed, for the dict or list the docstring admits as argument):
\* with schema-valid replies only, every String leaf of the input, wherever
\* it sits, is replaced by its translation.
C5_EveryStringTranslated ==
    (pc = "returned" /\ IsContainer(data)
     /\ \A i \in 1..Len(calls) : calls[i].svc.content = SchemaReply(calls[i].text))
        => result = Translated(data)

\* C6: every scalar that is no string is at the same position of the output,
\* unchanged, and what is passed to translate_text_with_prompt is always a
\* String leaf of the input.
C6_OtherPassThrough ==
    /\ pc = "returned" =>
          \A q \in Paths(data) :
              ValueAt(data, q).t = "other" => ValueAt(result, q) = ValueAt(data, q)
    /\ \A i \in 1..Len(calls) :
          /\ calls[i].path \in Paths(data)
          /\ ValueAt(data, calls[i].path) = Str(calls[i].text)

C6_Witness ==
    /\ pc = "returned"
    /\ calls # <<>>
    /\ \E q \in Paths(data) :
          /\ Len(q) = 2
          /\ ValueAt(data, q) = Other("3")
          /\ ValueAt(result, q) = Other("3")
    /\ result # data

\* C7 (as claimed, for the dict or list the docstring admits as argument): a
\* completed recursive_translate(V) has made exactly one Translator call per
\* String leaf of V.
C7_OneCallPerStringLeaf ==
    (pc = "returned" /\ IsContainer(data)) => Len(calls) = StringLeafCount(data)

\* C8 (as claimed): translate_text_with_prompt returns the raw reply text of
\* the service, or fails with 502 on an API error, or with 500 on any other
\* error; a reply that is no JSON is returned, a failure is never swallowed.
C8_ReturnsRawReplyOrFails ==
    \A i \in 1..Len(calls) :
        Resolved(calls[i]) =>
            /\ calls[i].svc.kind = "content"
                  => (calls[i].ret.kind = "return"
                      /\ calls[i].ret.text = calls[i].svc.content)
            /\ calls[i].svc.kind = "api_error"
                  => (calls[i].ret.kind = "raise" /\ calls[i].ret.status = 502)
            /\ calls[i].svc.kind \in {"none", "exception"}
                  => (calls[i].ret.kind = "raise" /\ calls[i].ret.status = 500)

\* C8 (amended): translate_text_with_prompt returns the reply text of the
\* service with the white space around it removed, or fails with 502 on an
\* API error, or with 500 on any other error; a reply that is no JSON is
\* returned, a failure is never swallowed.
C8_ReturnsStrippedReplyOrFails ==
    \A i \in 1..Len(calls) :
        Resolved(calls[i]) =>
            /\ (calls[i].svc.kind = "content" /\ calls[i].svc.content # PaddedReply)
                  => (calls[i].ret.kind = "return"
                      /\ calls[i].ret.text = calls[i].svc.content)
            /\ (calls[i].svc.kind = "content" /\ calls[i].svc.content = PaddedReply)
                  => (calls[i].ret.kind = "return" /\ calls[i].ret.text = "bonjour")
            /\ calls[i].svc.kind = "api_error"
                  => (calls[i].ret.kind = "raise" /\ calls[i].ret.status = 502)
            /\ calls[i].svc.kind \in {"none", "exception"}
                  => (calls[i].ret.kind = "raise" /\ calls[i].ret.status = 500)

C8_Witness ==
    /\ Len(calls) = 2
    /\ calls[1].svc.content = PaddedReply /\ calls[1].ret.text = "bonjour"
    /\ calls[2].svc.kind = "api_error" /\ calls[2].ret.status = 502

-----------------------------------------------------------------------------
(* The claim about translate_endpoint.                                     *)

\* a body on which the handler raises outside the Translator calls
Malformed(b) ==
    \/ ~IsDict(b)
    \/ /\ HasKey(b, "faqs")
       /\ \/ ~IsList(Get(b, "faqs", NoValue))
          \/ \E i \in 1..Len(Get(b, "faqs", NoValue).vals) :
                ~IsDict(Get(b, "faqs", NoValue).vals[i])

\* translations.ar of the response
ResponseAr == Get(Get(response.payload, "translations", NoValue), "ar", NoValue)

\* every entry whose Translator call failed holds the original value
FailedKeepOriginal ==
    \A e \in failed :
        IF e.key = "faqs" /\ e.idx > 0
        THEN Get(Get(ResponseAr, "faqs", NoValue).vals[e.idx], e.field, NoValue)
                = Get(Get(body, "faqs", NoValue).vals[e.idx], e.field, Str("?"))
        ELSE Get(ResponseAr, e.key, NoValue) = Get(body, e.key, Str("?"))

\* every recognized field with a truthy value and every field of every FAQ
\* has its entry
AllProcessed ==
    /\ \A n \in 1..Len(fields_to_translate) :
          LET m == FirstMatch(body, fields_to_translate[n]) IN
          (IF m = 0 THEN FALSE ELSE Truthy(body.vals[m])) => HasKey(ResponseAr, body.keys[m])
    /\ HasKey(body, "faqs") =>
          LET in == Get(body, "faqs", NoValue).vals
              out == Get(ResponseAr, "faqs", NoValue).vals
          IN /\ Len(out) = Len(in)
             /\ \A i \in 1..Len(in) : \A n \in 1..Len(faq_fields) :
                   HasKey(out[i], faq_fields[n]) <=> HasKey(in[i], faq_fields[n])

\* the handler answers "success" or "error", never with an exception, and
\* "error" exactly when something else than a Translator call failed
AnswersAlways ==
    /\ response.status \in {"success", "error"}
    /\ response.status = "error" <=> Malformed(body)

\* C10 (as claimed): when the handler is done it has answered "success" or
\* "error" ("error" only for a failure other than a Translator call); on
\* "success" every entry whose Translator call failed holds the original
\* value, every field and FAQ entry has been processed, and every key of the
\* body is in the payload unchanged.
C10_EveryBodyKeyUnchanged ==
    hpc = "done" =>
        /\ AnswersAlways
        /\ response.status = "success" =>
              /\ FailedKeepOriginal
              /\ AllProcessed
              /\ \A i \in 1..Len(body.keys) :
                    Get(response.payload, body.keys[i], NoValue) = body.vals[i]

\* C10 (amended): the same, with every key of the body other than
\* "translations" in the payload unchanged, and "translations" holding
\* {"ar": translations}.
C10_FailedFieldsKeepOriginal ==
    hpc = "done" =>
        /\ AnswersAlways
        /\ response.status = "success" =>
              /\ FailedKeepOriginal
              /\ AllProcessed
              /\ \A i \in 1..Len(body.keys) :
                    body.keys[i] # "translations"
                        => Get(response.payload, body.keys[i], NoValue) = body.vals[i]
              /\ Get(response.payload, "translations", NoValue).keys = <<"ar">>

C10_Witness ==
    /\ hpc = "done"
    /\ response.status = "success"
    /\ \E e \in failed : e.key = "Title" /\ Get(ResponseAr, "Title", NoValue) = Str("Hi")
    /\ \E e \in failed : e = FaqEntry(1, "title")
    /\ Get(Get(ResponseAr, "faqs", NoValue).vals[1], "answer", NoValue) = Str("A")

====
